---- MODULE Spec2Model ----
(***************************************************************************)
(* A model of xargo's sysroot-cache layer (src/src/xargo.rs):              *)
(*   - run, bracketing the external build with shared sysroot locks;       *)
(*   - Home, home: the cache root and the per-triple sysroot paths;        *)
(*   - toml, toml_src: the lookup of Xargo.toml and of package.rust-src.   *)
(* Paths are sequences of components; strings that the code splits are     *)
(* sequences of characters.                                                *)
(***************************************************************************)
EXTENDS Integers, Sequences, FiniteSets, TLC

\* ------------------------------------------------------------------ bounds
\* concurrent process invocations racing on one cache directory
NumProcs == 2
\* exit statuses of the external build are 0..MaxStatus
MaxStatus == 1

Procs == 1..NumProcs
Statuses == 0..MaxStatus

\* ------------------------------------------------------------ basic values
None == <<"None">>
Some(v) == <<"Some", v>>
Ok(v) == <<"Ok", v>>
Err(e) == <<"Err", e>>
IsOk(r) == r[1] = "Ok"
IsErr(r) == r[1] = "Err"

\* meta.host, the triple of the machine all invocations run on
HostTriple == "x86_64-host"
CrossTriple == "thumbv7m-none"
\* a triple may be any directory name, also one that looks like a cache folder
Triples == {HostTriple, CrossTriple}

\* CompilationMode: Native(host) or Cross(target)
Native(t) == [native |-> TRUE, triple |-> t]
Cross(t) == [native |-> FALSE, triple |-> t]
CompilationModes == {Native(HostTriple), Cross(CrossTriple)}
is_native(cmode) == cmode.native
triple(cmode) == cmode.triple

\* ------------------------------------------------------------ Home, home
\* home with a fault: the HOST directory is not pushed in native mode
home_no_marker(xargo_home, home_dir, cmode) ==
    IF xargo_home # None THEN Ok(xargo_home[2])
    ELSE IF home_dir = None THEN Err("couldn't find your home directory. Is $HOME set?")
    ELSE Ok(home_dir[2] \o <<".xargo">>)

\* home with a fault: the home directory is looked at before XARGO_HOME
home_dir_first(xargo_home, home_dir, cmode) ==
    LET p == IF home_dir # None THEN Ok(home_dir[2] \o <<".xargo">>)
             ELSE IF xargo_home = None
                  THEN Err("couldn't find your home directory. Is $HOME set?")
                  ELSE Ok(xargo_home[2])
    IN IF IsErr(p) THEN p
       ELSE IF is_native(cmode) THEN Ok(p[2] \o <<"HOST">>) ELSE p

\* home(cmode): XARGO_HOME if set, else <home_dir>/.xargo; HOST pushed when native
home(xargo_home, home_dir, cmode) ==
    LET p == IF xargo_home # None THEN Ok(xargo_home[2])
             ELSE IF home_dir = None
                  THEN Err("couldn't find your home directory. Is $HOME set?")
                  ELSE Ok(home_dir[2] \o <<".xargo">>)
    IN IF IsErr(p) THEN p
       ELSE IF is_native(cmode) THEN Ok(p[2] \o <<"HOST">>) ELSE p

\* Home::path with a fault: the triple is not joined
path_no_triple(h, t) == h \o <<"lib", "rustlib">>

\* Home::path(triple) = self.path.join("lib/rustlib").join(triple)
path(h, t) == h \o <<"lib", "rustlib">> \o <<t>>

\* Home::lock_rw with a fault: the sentinel is opened with open_ro (shared)
lock_rw_shared(h, t) ==
    [file |-> path(h, t) \o <<".sentinel">>, state |-> "Shared"]

\* Home::lock_ro with a fault: the sentinel is opened with open_rw (exclusive)
lock_ro_exclusive(h, t) ==
    [file |-> path(h, t) \o <<".sentinel">>, state |-> "Exclusive"]

\* Home::lock_ro(triple): fs.open_ro(".sentinel", ..), a request for a shared lock
lock_ro(h, t) ==
    [file |-> path(h, t) \o <<".sentinel">>, state |-> "Shared"]

\* Home::lock_rw(triple): fs.open_rw(".sentinel", ..), a request for an exclusive lock
lock_rw(h, t) ==
    [file |-> path(h, t) \o <<".sentinel">>, state |-> "Exclusive"]

\* ------------------------------------------------ the advisory file lock
\* flock: a shared lock is granted when no exclusive lock is held on the file,
\* an exclusive lock when no lock at all is held on it
Grantable(fls, req) ==
    IF req.state = "Shared"
    THEN \A l \in fls : l.file = req.file => l.state # "Exclusive"
    ELSE \A l \in fls : l.file # req.file

\* the FileLock a granted request yields, owned by one slot of one process
FileLock(req, p, slot) ==
    [proc |-> p, slot |-> slot, file |-> req.file, state |-> req.state]

\* the release with a fault: the locks are leaked (mem::forget)
forget_locks(fls, p) == fls

\* mem::drop(locks), and the drop of `locks` on the early return of `?`
drop_locks(fls, p) == {l \in fls : l.proc # p}

\* ------------------------------------------------------ flags and results
\* Rustflags::for_xargo(home): the flags followed by --sysroot <home>
for_xargo(flags, h) == flags \o <<"--sysroot", h>>

\* run's result with a fault: a non-zero status is turned into an error
run_result_bail(status) == IF status = 0 THEN Ok(status) ELSE Err("exit status")

\* Ok(status): the status run returns once the external process has exited
run_result(status) == Ok(status)

\* ---------------------------------------------------------------- state
VARIABLES
    subcommand,  \* args.subcommand() of the invocations of this behaviour
    pc,          \* where each process is: a run invocation or a sysroot builder
    cmode,       \* the CompilationMode of each process
    builds,      \* the triple a sysroot builder locks
    locks,       \* run's local `locks`: what each lock_ro returned
    held,        \* the FileLocks currently held, over all processes
    child,       \* the external build process of each run invocation
    childenv,    \* the environment run set on the command
    result       \* what run returned

lockVars == <<subcommand, pc, cmode, builds, locks, held, child,
              childenv, result>>

\* the resolution of the cache root
VARIABLES
    env_xargo_home,  \* env::var_os("XARGO_HOME")
    env_home_dir,    \* dirs::home_dir()
    homes,           \* what home(cmode) returned, per kind of compilation
    sysroots         \* the sysroot path last derived from each Home

homeVars == <<env_xargo_home, env_home_dir, homes, sysroots>>

\* the resolution of the configuration
VARIABLES
    platform,    \* the platform the tool is built for
    files,       \* what each directory holds under the name Xargo.toml
    dirs,        \* the directories that exist
    links,       \* the symbolic links, each with the directory it names
    root,        \* the project root handed to toml and toml_src
    cwd,         \* the current directory of the process
    toml_out,    \* what toml returned
    src_out,     \* what toml_src returned
    warnings     \* the warnings toml_src wrote

cfgVars == <<platform, files, dirs, links, root, cwd, toml_out, src_out,
             warnings>>

\* the tables of a parsed Xargo.toml
VARIABLES
    toml_table,    \* Toml.table, the document parse returned
    toml_target,   \* the target name handed to target_dependencies
    deps_out,      \* what dependencies returned
    tdeps_out,     \* what target_dependencies returned
    patch_out      \* what patch returned

tomlVars == <<toml_table, toml_target, deps_out, tdeps_out, patch_out>>

vars == <<lockVars, homeVars, cfgVars, tomlVars>>

\* the environment of the machine: XARGO_HOME unset, a home directory
EnvXargoHome == None
EnvHomeDir == Some(<<"home", "user">>)

\* the Home main built with home(cmode) before it calls run
Home(cm) == home(EnvXargoHome, EnvHomeDir, cm)[2]

Subcommands == {"build", "doc"}
\* the user's flags, as handed to run
rustflags == <<"-C", "panic=abort">>
NoLocks == [host |-> "unset", target |-> "unset"]
NoEnv == [RUSTFLAGS |-> None, RUSTDOCFLAGS |-> None]

InitLocks ==
    /\ subcommand \in Subcommands
    /\ pc = [p \in Procs |-> "idle"]
    /\ cmode = [p \in Procs |-> None]
    /\ builds = [p \in Procs |-> None]
    /\ locks = [p \in Procs |-> NoLocks]
    /\ held = {}
    /\ child = [p \in Procs |-> None]
    /\ childenv = [p \in Procs |-> NoEnv]
    /\ result = [p \in Procs |-> None]

\* ------------------------------------------------------------------- run
\* the environment with a fault: RUSTDOCFLAGS is set for every subcommand
run_env_always_doc(cm, docflags) ==
    [RUSTFLAGS |-> Some(for_xargo(rustflags, Home(cm))),
     RUSTDOCFLAGS |-> Some(for_xargo(docflags[2], Home(cm)))]

\* run, lines 30-38: RUSTDOCFLAGS for the doc subcommand only, and RUSTFLAGS
run_env(cm, docflags) ==
    [RUSTFLAGS |-> Some(for_xargo(rustflags, Home(cm))),
     RUSTDOCFLAGS |-> IF subcommand = "doc"
                      THEN Some(for_xargo(docflags[2], Home(cm)))
                      ELSE None]

\* run, lines 27-41: the command and its environment; the documentation flags
\* are computed first and their failure returns at once
run_begin(p) ==
    /\ pc[p] \in {"idle", "done", "killed"}
    /\ \E cm \in CompilationModes, docflags \in {Ok(<<>>), Err("rustdocflags")} :
         /\ locks' = [locks EXCEPT ![p] = NoLocks]
         /\ child' = [child EXCEPT ![p] = None]
         /\ IF subcommand = "doc" /\ IsErr(docflags)
            THEN /\ pc' = [pc EXCEPT ![p] = "done"]
                 /\ result' = [result EXCEPT ![p] = docflags]
                 /\ cmode' = [cmode EXCEPT ![p] = None]
                 /\ childenv' = [childenv EXCEPT ![p] = NoEnv]
            ELSE /\ subcommand = "doc" \/ docflags = Ok(<<>>)
                 /\ pc' = [pc EXCEPT ![p] = "lock_host"]
                 /\ cmode' = [cmode EXCEPT ![p] = Some(cm)]
                 /\ result' = [result EXCEPT ![p] = None]
                 /\ childenv' = [childenv EXCEPT ![p] = run_env(cm, docflags)]
    /\ UNCHANGED <<subcommand, builds, held>>
    /\ UNCHANGED <<homeVars, cfgVars, tomlVars>>

\* the request run is making, or about to make, while it takes its locks
run_request(p) ==
    IF pc[p] = "lock_host" THEN lock_ro(Home(cmode[p][2]), HostTriple)
    ELSE lock_ro(Home(cmode[p][2]), triple(cmode[p][2]))

\* run, line 43, first element: home.lock_ro(&meta.host). The call blocks until
\* the lock is grantable, or fails on the open; its Result is kept, not tested
run_lock_host(p) ==
    /\ pc[p] = "lock_host"
    /\ \/ /\ Grantable(held, run_request(p))
          /\ held' = held \cup {FileLock(run_request(p), p, "host")}
          /\ locks' = [locks EXCEPT ![p].host = "Ok"]
       \/ /\ held' = held
          /\ locks' = [locks EXCEPT ![p].host = "Err"]
    /\ pc' = [pc EXCEPT ![p] = "lock_target"]
    /\ UNCHANGED <<subcommand, cmode, builds, child, childenv, result>>
    /\ UNCHANGED <<homeVars, cfgVars, tomlVars>>

\* run, line 43, second element: home.lock_ro(cmode.triple())
run_lock_target(p) ==
    /\ pc[p] = "lock_target"
    /\ \/ /\ Grantable(held, run_request(p))
          /\ held' = held \cup {FileLock(run_request(p), p, "target")}
          /\ locks' = [locks EXCEPT ![p].target = "Ok"]
       \/ /\ held' = held
          /\ locks' = [locks EXCEPT ![p].target = "Err"]
    /\ pc' = [pc EXCEPT ![p] = "launch"]
    /\ UNCHANGED <<subcommand, cmode, builds, child, childenv, result>>
    /\ UNCHANGED <<homeVars, cfgVars, tomlVars>>

\* run, line 45: cmd.run_and_get_status(verbose)?, the launch. A command that
\* cannot be executed returns the error, and the scope's end drops the locks
run_launch(p) ==
    /\ pc[p] = "launch"
    /\ \/ /\ pc' = [pc EXCEPT ![p] = "running"]
          /\ child' = [child EXCEPT ![p] = <<"running">>]
          /\ UNCHANGED <<held, locks, result, cmode, childenv>>
       \/ /\ pc' = [pc EXCEPT ![p] = "done"]
          /\ child' = [child EXCEPT ![p] = <<"not launched">>]
          /\ result' = [result EXCEPT ![p] = Err("couldn't execute")]
          /\ held' = drop_locks(held, p)
          /\ locks' = [locks EXCEPT ![p] = NoLocks]
          /\ cmode' = [cmode EXCEPT ![p] = None]
          /\ childenv' = [childenv EXCEPT ![p] = NoEnv]
    /\ UNCHANGED <<subcommand, builds>>
    /\ UNCHANGED <<homeVars, cfgVars, tomlVars>>

\* run, lines 45-49: the external process exits, the locks are dropped and
\* its status is returned
run_exit(p) ==
    /\ pc[p] = "running"
    /\ \E status \in Statuses :
         /\ child' = [child EXCEPT ![p] = <<"exited", status>>]
         /\ result' = [result EXCEPT ![p] = run_result(status)]
    /\ held' = drop_locks(held, p)
    /\ locks' = [locks EXCEPT ![p] = NoLocks]
    /\ pc' = [pc EXCEPT ![p] = "done"]
    /\ cmode' = [cmode EXCEPT ![p] = None]
    /\ childenv' = [childenv EXCEPT ![p] = NoEnv]
    /\ UNCHANGED <<subcommand, builds>>
    /\ UNCHANGED <<homeVars, cfgVars, tomlVars>>

\* ------------------------------------------------------ the sysroot builder
\* a process that writes a sysroot: it asks for home.lock_rw(triple)
rw_begin(p) ==
    /\ pc[p] \in {"idle", "done", "killed"}
    /\ \E cm \in CompilationModes :
         \E t \in {HostTriple, triple(cm)} :
            /\ cmode' = [cmode EXCEPT ![p] = Some(cm)]
            /\ builds' = [builds EXCEPT ![p] = Some(t)]
    /\ pc' = [pc EXCEPT ![p] = "rw_wait"]
    /\ locks' = [locks EXCEPT ![p] = NoLocks]
    /\ child' = [child EXCEPT ![p] = None]
    /\ childenv' = [childenv EXCEPT ![p] = NoEnv]
    /\ result' = [result EXCEPT ![p] = None]
    /\ UNCHANGED <<subcommand, held>>
    /\ UNCHANGED <<homeVars, cfgVars, tomlVars>>

rw_request(p) == lock_rw(Home(cmode[p][2]), builds[p][2])

\* lock_rw blocks until the exclusive lock is grantable, or fails on the open
rw_lock(p) ==
    /\ pc[p] = "rw_wait"
    /\ \/ /\ Grantable(held, rw_request(p))
          /\ held' = held \cup {FileLock(rw_request(p), p, "rw")}
          /\ pc' = [pc EXCEPT ![p] = "rw_held"]
          /\ UNCHANGED <<cmode, builds>>
       \/ /\ held' = held
          /\ pc' = [pc EXCEPT ![p] = "idle"]
          /\ cmode' = [cmode EXCEPT ![p] = None]
          /\ builds' = [builds EXCEPT ![p] = None]
    /\ UNCHANGED <<subcommand, locks, child, childenv, result>>
    /\ UNCHANGED <<homeVars, cfgVars, tomlVars>>

\* the builder's FileLock goes out of scope
rw_release(p) ==
    /\ pc[p] = "rw_held"
    /\ held' = drop_locks(held, p)
    /\ pc' = [pc EXCEPT ![p] = "idle"]
    /\ cmode' = [cmode EXCEPT ![p] = None]
    /\ builds' = [builds EXCEPT ![p] = None]
    /\ UNCHANGED <<subcommand, locks, child, childenv, result>>
    /\ UNCHANGED <<homeVars, cfgVars, tomlVars>>

\* ------------------------------------------------- external termination
\* the locks left once the system has closed every file a dead process had open
close_nothing(fls, p) == fls
close_files(fls, p) == {l \in fls : l.proc # p}

\* a process is terminated from outside, wherever it is: it runs no more code,
\* and the system closes its files, which releases the locks held on them.
\* cmode and locks stay as the record of what the process had asked for.
kill(p) ==
    /\ pc[p] \notin {"idle", "done", "killed"}
    /\ held' = close_files(held, p)
    /\ pc' = [pc EXCEPT ![p] = "killed"]
    /\ builds' = [builds EXCEPT ![p] = None]
    /\ child' = [child EXCEPT ![p] = None]
    /\ childenv' = [childenv EXCEPT ![p] = NoEnv]
    /\ result' = [result EXCEPT ![p] = None]
    /\ UNCHANGED <<subcommand, cmode, locks>>
    /\ UNCHANGED <<homeVars, cfgVars, tomlVars>>

\* ------------------------------------------- home and the sysroot paths
\* One cache root, given by the environment, and the two Homes main can build
\* from it: the one of a native and the one of a cross compilation.
Kinds == {"native", "cross"}
XargoHomes == {None, Some(<<"cache">>), Some(<<"cache", "HOST">>)}
HomeDirs == {None, Some(<<"home", "user">>), Some(<<"cache">>)}
\* triples, and names that look like the directories of the cache
TripleNames == Triples \cup {"HOST", "lib", "rustlib"}

InitHome ==
    /\ env_xargo_home \in XargoHomes
    /\ env_home_dir \in HomeDirs
    /\ homes = [k \in Kinds |-> None]
    /\ sysroots = [k \in Kinds |-> None]

\* home(cmode) for a native or a cross CompilationMode
home_call(k) ==
    /\ \E t \in Triples :
          homes' = [homes EXCEPT ![k] =
              home(env_xargo_home, env_home_dir,
                   IF k = "native" THEN Native(t) ELSE Cross(t))]
    /\ sysroots' = [sysroots EXCEPT ![k] = None]
    /\ UNCHANGED <<env_xargo_home, env_home_dir>>
    /\ UNCHANGED <<lockVars, cfgVars, tomlVars>>

\* Home::path(triple) on a Home that home returned
path_call(k) ==
    /\ homes[k] # None
    /\ IsOk(homes[k])
    /\ \E t \in TripleNames :
          sysroots' = [sysroots EXCEPT ![k] = Some(path(homes[k][2], t))]
    /\ UNCHANGED <<env_xargo_home, env_home_dir, homes>>
    /\ UNCHANGED <<lockVars, cfgVars, tomlVars>>

NextHome == \E k \in Kinds : home_call(k) \/ path_call(k)

\* ------------------------------------------------ Xargo.toml: toml, toml_src
\* A string is a sequence of characters (a name chunk counts as one character),
\* a file name is the sequence of characters between two separators, and a
\* directory is the sequence of the names from the filesystem root.
Name(s) == <<s>>
Dir(names) == [i \in 1..Len(names) |-> Name(names[i])]

\* toml::Value
TString(s) == <<"String", s>>
TInteger(n) == <<"Integer", n>>
TTable(f) == <<"Table", f>>

\* what a directory holds under the name Xargo.toml
Absent == <<"absent">>
Malformed == <<"malformed">>
Valid(doc) == <<"valid", doc>>

\* Table::get(key)
get(table, key) == IF key \in DOMAIN table THEN Some(table[key]) ELSE None

\* Value::as_str
as_str(value) == IF value[1] = "String" THEN Some(value[2]) ELSE None

\* str::split(sep)
RECURSIVE split(_, _)
split(str, sep) ==
    IF \A i \in 1..Len(str) : str[i] # sep THEN <<str>>
    ELSE LET i == CHOOSE k \in 1..Len(str) :
                     str[k] = sep /\ \A j \in 1..(k - 1) : str[j] # sep
         IN <<SubSeq(str, 1, i - 1)>> \o split(SubSeq(str, i + 1, Len(str)), sep)

\* [str]::join(sep)
RECURSIVE join(_, _)
join(segs, sep) ==
    IF Len(segs) = 0 THEN <<>>
    ELSE IF Len(segs) = 1 THEN segs[1]
    ELSE segs[1] \o <<sep>> \o join(Tail(segs), sep)

\* the value reached from a value through the tables named by a list of keys
RECURSIVE walk(_, _)
walk(value, keys) ==
    IF keys = <<>> THEN Some(value)
    ELSE IF value[1] # "Table" THEN None
    ELSE LET e == get(value[2], keys[1])
         IN IF e = None THEN None ELSE walk(e[2], Tail(keys))

\* Value::lookup(path): the path is cut at its dots into keys, and the keys
\* are followed from table to table; a path with an empty key names nothing
lookup(value, dotted) ==
    IF dotted = <<>> THEN Some(value)
    ELSE LET keys == split(dotted, ".")
         IN IF \E i \in 1..Len(keys) : keys[i] = <<>> THEN None
            ELSE walk(value, keys)

\* Toml::dependencies: self.table.lookup("dependencies")
dependencies(t) == lookup(t, Name("dependencies"))

\* Toml::target_dependencies:
\* self.table.lookup(&format!("target.{}.dependencies", target))
target_dependencies(t, target) ==
    lookup(t, <<"target", ".">> \o target \o <<".", "dependencies">>)

\* Toml::patch: self.table.lookup("patch")
patch(t) == lookup(t, Name("patch"))

\* Toml::package: self.table.lookup("package")
package(t) == lookup(t, Name("package"))

\* std::path::MAIN_SEPARATOR and std::path::is_separator
MAIN_SEPARATOR == IF platform = "windows" THEN "\\" ELSE "/"
is_separator(c) ==
    c = "/" \/ (platform = "windows" /\ c = "\\")

\* the names of a path string: what lies between separators
RECURSIVE components(_)
components(str) ==
    IF \A i \in 1..Len(str) : ~is_separator(str[i])
    THEN IF str = <<>> THEN <<>> ELSE <<str>>
    ELSE LET i == CHOOSE k \in 1..Len(str) :
                     /\ is_separator(str[k])
                     /\ \A j \in 1..(k - 1) : ~is_separator(str[j])
             rest == components(SubSeq(str, i + 1, Len(str)))
         IN IF i = 1 THEN rest ELSE <<SubSeq(str, 1, i - 1)>> \o rest

\* PathBuf::from(string): absolute when it starts with a separator
PathBuf_from(str) ==
    [absolute |-> str # <<>> /\ is_separator(str[1]),
     names |-> components(str)]

\* the walk of canonicalize: every name must exist, "." stays, ".." goes up,
\* a symbolic link is replaced by its target
RECURSIVE resolve(_, _)
resolve(at, names) ==
    IF names = <<>> THEN Ok(at)
    ELSE LET n == names[1]
             next == at \o <<n>>
         IN IF n = Name(".") THEN resolve(at, Tail(names))
            ELSE IF n = Name("..")
                 THEN resolve(IF at = <<>> THEN at ELSE SubSeq(at, 1, Len(at) - 1),
                              Tail(names))
            ELSE IF next \in DOMAIN links
                 THEN resolve(links[next], Tail(names))
            ELSE IF next \in dirs THEN resolve(next, Tail(names))
            ELSE Err("No such file or directory")

\* Path::canonicalize with a fault: the path is not looked up in the filesystem
canonicalize_unchecked(pathbuf) ==
    Ok((IF pathbuf.absolute THEN <<>> ELSE cwd) \o pathbuf.names)

\* Path::canonicalize: a relative path is taken from the current directory
canonicalize(pathbuf) ==
    resolve(IF pathbuf.absolute THEN <<>> ELSE cwd, pathbuf.names)

\* util::search(path, file): the nearest directory, from path upwards, in which
\* the file exists
RECURSIVE search(_)
search(dir) ==
    IF files[dir] # Absent THEN Some(dir)
    ELSE IF dir = <<>> THEN None
    ELSE search(SubSeq(dir, 1, Len(dir) - 1))

\* util::parse(file): the document of a well-formed file
parse(file) ==
    IF file = Malformed THEN Err("error parsing Xargo.toml") ELSE Ok(file[2])

\* toml with a fault: a malformed file is reported as found, without document
toml_swallow(r) ==
    LET p == search(r)
    IN IF p # None
       THEN LET t == parse(files[p[2]])
            IN IF IsErr(t) THEN Ok(<<p, None>>) ELSE Ok(<<p, Some(t[2])>>)
       ELSE Ok(<<None, None>>)

\* toml(root): the closest directory with a Xargo.toml and its parsed content
toml(r) ==
    LET p == search(r)
    IN IF p # None
       THEN LET t == parse(files[p[2]])
            IN IF IsErr(t) THEN t ELSE Ok(<<p, Some(t[2])>>)
       ELSE Ok(<<None, None>>)

\* toml_src(root): the rust-src of the package table, canonicalized; the value
\* returned and the number of warnings written
toml_src(r) ==
    LET found == toml(r)
    IN IF IsErr(found) THEN [ret |-> found, warnings |-> 0]
       ELSE IF found[2][2] = None THEN [ret |-> Ok(None), warnings |-> 0]
       ELSE LET pkg == package(found[2][2][2])
            IN IF pkg = None \/ pkg[2][1] # "Table"
               THEN [ret |-> Ok(None), warnings |-> 0]
               ELSE LET v == get(pkg[2][2], Name("rust-src"))
                        src == IF v = None THEN None ELSE as_str(v[2])
                    IN IF src = None THEN [ret |-> Ok(None), warnings |-> 0]
                       ELSE LET native == join(split(src[2], "/"),
                                               MAIN_SEPARATOR)
                                canon == canonicalize(PathBuf_from(native))
                            IN IF IsOk(canon)
                               THEN [ret |-> Ok(Some(canon[2])), warnings |-> 0]
                               ELSE [ret |-> Ok(None), warnings |-> 1]

\* the inputs of the configuration resolution
W == Dir(<<"w">>)
Proj == Dir(<<"w", "proj">>)
Sub == Dir(<<"w", "proj", "sub">>)
Real == Dir(<<"w", "real">>)
ABC == Dir(<<"a", "b", "c">>)
RustSrcRelative == <<"a", "/", "b", "/", "c">>
RustSrcAbsolute == <<"/", "w", "/", "a", "/", "b", "/", "c">>

\* the directories a, a/b and a/b/c below a directory
Tree(base) == {base \o SubSeq(ABC, 1, k) : k \in 1..3}

\* the documents: no package, a package that is no table, a package without
\* rust-src, a rust-src that is no string, a relative and an absolute rust-src
EmptyTable == TTable(<<>>)
Docs ==
    { EmptyTable,
      TTable(Name("package") :> TString(<<"core">>)),
      TTable(Name("package") :> EmptyTable),
      TTable(Name("package") :> TTable(Name("rust-src") :> TInteger(1))),
      TTable(Name("package") :> TTable(Name("rust-src") :> TString(RustSrcRelative))),
      TTable(Name("package") :> TTable(Name("rust-src") :> TString(RustSrcAbsolute))) }

\* the project root is the current directory or one of its ancestors
RootsAndCwds ==
    { <<W, W>>, <<W, Proj>>, <<W, Sub>>, <<Proj, Proj>>, <<Proj, Sub>> }

\* the filesystems: a/b/c exists below any of w, w/proj and w/proj/sub, and
\* w/proj/a may be a symbolic link to w/real
Filesystems ==
    { [dirs |-> {<<>>, W, Proj, Sub}
                \cup UNION {Tree(b) : b \in (IF linked THEN B \ {Proj} ELSE B)}
                \cup (IF linked THEN {Real} ELSE {})
                \cup (IF linked /\ Proj \in B
                      THEN {Real \o SubSeq(ABC, 2, k) : k \in 2..3} ELSE {}),
       links |-> IF linked THEN (Proj \o <<Name("a")>>) :> Real ELSE <<>>]
      : B \in SUBSET {W, Proj, Sub}, linked \in BOOLEAN }

InitCfg ==
    /\ platform \in {"unix", "windows"}
    /\ files \in [{<<>>, W, Proj} -> {Absent, Malformed} \cup {Valid(d) : d \in Docs}]
    /\ files[<<>>] \in {Absent, Valid(EmptyTable)}
    /\ \E fs \in Filesystems : dirs = fs.dirs /\ links = fs.links
    /\ \E rc \in RootsAndCwds : root = rc[1] /\ cwd = rc[2]
    /\ toml_out = None
    /\ src_out = None
    /\ warnings = 0

\* a call of toml(root)
toml_call ==
    /\ toml_out = None
    /\ toml_out' = Some(toml(root))
    /\ UNCHANGED <<platform, files, dirs, links, root, cwd, src_out, warnings>>
    /\ UNCHANGED <<lockVars, homeVars, tomlVars>>

\* a call of toml_src(root)
toml_src_call ==
    /\ src_out = None
    /\ src_out' = Some(toml_src(root).ret)
    /\ warnings' = warnings + toml_src(root).warnings
    /\ UNCHANGED <<platform, files, dirs, links, root, cwd, toml_out>>
    /\ UNCHANGED <<lockVars, homeVars, tomlVars>>

NextCfg == toml_call \/ toml_src_call

\* ------------------------------------------- the tables of Xargo.toml
\* target names, as strings: the host, a target, and a target with a dot in
\* its name, such as thumbv8m.main-none-eabi
DottedTriple == <<"thumbv8m", ".", "main-none-eabi">>
TargetNames == {Name(HostTriple), Name(CrossTriple), DottedTriple}

Crate(s) == TTable(Name(s) :> EmptyTable)
\* the [target] tables a document can have: none; one [target.T.dependencies]
\* per target name T, the name being one key (quoted where it has a dot);
\* [target.T] without dependencies; and the tables an unquoted header
\* [target.thumbv8m.main-none-eabi.dependencies] makes, one per piece
TargetTables ==
    { TTable(T :> TTable(Name("dependencies") :> Crate("alloc")))
        : T \in TargetNames }
    \cup { TTable(Name(CrossTriple) :> EmptyTable),
           TTable(Name(CrossTriple) :> TTable(Name("dependencies") :> Crate("alloc"))
                  @@ DottedTriple :> TTable(Name("dependencies") :> Crate("core"))),
           TTable(Name("thumbv8m") :>
                    TTable(Name("main-none-eabi") :>
                             TTable(Name("dependencies") :> Crate("core")))) }

\* a document: dependencies or not, patch or not, target tables or not
TomlTable(deps, pat, tgt) ==
    TTable([k \in (IF deps THEN {Name("dependencies")} ELSE {})
                  \cup (IF pat THEN {Name("patch")} ELSE {})
                  \cup (IF tgt = None THEN {} ELSE {Name("target")})
            |-> IF k = Name("dependencies") THEN Crate("core")
                ELSE IF k = Name("patch") THEN Crate("crates-io")
                ELSE tgt[2]])

InitToml ==
    /\ toml_table \in { TomlTable(deps, pat, tgt) :
                           deps \in BOOLEAN, pat \in BOOLEAN,
                           tgt \in {None} \cup {Some(t) : t \in TargetTables} }
    /\ toml_target \in TargetNames
    /\ deps_out = None
    /\ tdeps_out = None
    /\ patch_out = None

dependencies_call ==
    /\ deps_out' = Some(dependencies(toml_table))
    /\ UNCHANGED <<toml_table, toml_target, tdeps_out, patch_out>>
    /\ UNCHANGED <<lockVars, homeVars, cfgVars>>

target_dependencies_call ==
    /\ tdeps_out' = Some(target_dependencies(toml_table, toml_target))
    /\ UNCHANGED <<toml_table, toml_target, deps_out, patch_out>>
    /\ UNCHANGED <<lockVars, homeVars, cfgVars>>

patch_call ==
    /\ patch_out' = Some(patch(toml_table))
    /\ UNCHANGED <<toml_table, toml_target, deps_out, tdeps_out>>
    /\ UNCHANGED <<lockVars, homeVars, cfgVars>>

NextToml == dependencies_call \/ target_dependencies_call \/ patch_call

\* ---------------------------------------------------------- specification
NextLocks ==
    \E p \in Procs :
        \/ run_begin(p)
        \/ run_lock_host(p)
        \/ run_lock_target(p)
        \/ run_launch(p)
        \/ run_exit(p)
        \/ rw_begin(p)
        \/ rw_lock(p)
        \/ rw_release(p)
        \/ kill(p)

\* the variables of the home resolution, at rest
HomeAtRest ==
    /\ env_xargo_home = EnvXargoHome
    /\ env_home_dir = EnvHomeDir
    /\ homes = [k \in Kinds |-> None]
    /\ sysroots = [k \in Kinds |-> None]

\* the variables of a run invocation, at rest
LocksAtRest == InitLocks /\ subcommand = "build"

\* the variables of the configuration resolution, at rest
CfgAtRest ==
    /\ platform = "unix"
    /\ files = [d \in {<<>>, W, Proj} |-> Absent]
    /\ dirs = {<<>>, W, Proj, Sub}
    /\ links = <<>>
    /\ root = Proj
    /\ cwd = Proj
    /\ toml_out = None
    /\ src_out = None
    /\ warnings = 0

\* the variables of the tables of Xargo.toml, at rest
TomlAtRest ==
    /\ toml_table = EmptyTable
    /\ toml_target = Name(HostTriple)
    /\ deps_out = None
    /\ tdeps_out = None
    /\ patch_out = None

\* concurrent run invocations and sysroot builders on one cache
Init == InitLocks /\ HomeAtRest /\ CfgAtRest /\ TomlAtRest

Next == NextLocks

Spec == Init /\ [][Next]_vars

\* the same, with processes that go on: a request that stays grantable is
\* granted, a build that was launched exits, and a builder releases its lock;
\* nothing makes a new invocation start, an open fail or a process be killed
Fairness ==
    \A p \in Procs :
       /\ WF_vars(run_lock_host(p) /\ locks'[p].host = "Ok")
       /\ WF_vars(run_lock_target(p) /\ locks'[p].target = "Ok")
       /\ WF_vars(run_launch(p))
       /\ WF_vars(run_exit(p))
       /\ WF_vars(rw_lock(p) /\ pc'[p] = "rw_held")
       /\ WF_vars(rw_release(p))

SpecFair == Init /\ [][Next]_vars /\ Fairness

\* the resolution of the cache root and of the sysroot paths
InitHomeSpec == InitHome /\ LocksAtRest /\ CfgAtRest /\ TomlAtRest

SpecHome == InitHomeSpec /\ [][NextHome]_vars

\* the resolution of Xargo.toml and of package.rust-src
InitCfgSpec == InitCfg /\ LocksAtRest /\ HomeAtRest /\ TomlAtRest

SpecCfg == InitCfgSpec /\ [][NextCfg]_vars

\* the lookups in the tables of Xargo.toml
InitTomlSpec == InitToml /\ LocksAtRest /\ HomeAtRest /\ CfgAtRest

SpecToml == InitTomlSpec /\ [][NextToml]_vars

\* ------------------------------------------------- reading the lock table
\* the sysroot a held FileLock was asked for: the Home and the triple of the call
HandleHome(l) == Home(cmode[l.proc][2])
HandleTriple(l) ==
    IF l.slot = "host" THEN HostTriple
    ELSE IF l.slot = "target" THEN triple(cmode[l.proc][2])
    ELSE builds[l.proc][2]
ViaLockRw(l) == l.slot = "rw"

\* the call a process is blocked in, if any
Pending(p) == pc[p] \in {"lock_host", "lock_target", "rw_wait"}
Request(p) == IF pc[p] = "rw_wait" THEN rw_request(p) ELSE run_request(p)
RequestTriple(p) ==
    IF pc[p] = "rw_wait" THEN builds[p][2]
    ELSE IF pc[p] = "lock_host" THEN HostTriple ELSE triple(cmode[p][2])
Blocked(p) == Pending(p) /\ ~Grantable(held, Request(p))

LockFailed(p) == locks[p].host = "Err" \/ locks[p].target = "Err"
HoldsShared(p, slot) ==
    \E l \in held : l.proc = p /\ l.slot = slot /\ l.state = "Shared"
ExclusiveOn(h, t, p) ==
    \E l \in held : /\ l.proc # p
                    /\ ViaLockRw(l)
                    /\ HandleHome(l) = h
                    /\ HandleTriple(l) = t

\* ------------------------------------------------------------------ claims
\* C1: when lock_ro fails for the host or the target triple, run returns an
\* error and the external build process is never launched in that invocation.
C1_LockFailureAborts ==
    [][\A p \in Procs :
          LockFailed(p) =>
             /\ pc'[p] # "running"
             /\ pc'[p] = "done" => IsErr(result'[p])]_vars

\* C2: while the external build process of an invocation runs, the invocation
\* holds a shared lock on the host triple's and on the target triple's sysroot,
\* and no other process holds an exclusive lock on either.
C2_LocksHeldWhileRunning ==
    \A p \in Procs :
       pc[p] = "running" =>
          /\ HoldsShared(p, "host")
          /\ HoldsShared(p, "target")
          /\ ~ExclusiveOn(Home(cmode[p][2]), HostTriple, p)
          /\ ~ExclusiveOn(Home(cmode[p][2]), triple(cmode[p][2]), p)

\* C3: for one triple of one Home, a lock taken with lock_rw is the only lock
\* held on that sysroot: no lock_ro and no other lock_rw is held along with it,
\* while locks taken with lock_ro are held together.
C3_ReaderWriterExclusion ==
    \A l1 \in held : \A l2 \in held :
       ( /\ l1 # l2
         /\ HandleHome(l1) = HandleHome(l2)
         /\ HandleTriple(l1) = HandleTriple(l2) )
       => ~ViaLockRw(l1) /\ ~ViaLockRw(l2)

\* an exclusive holder, with a run invocation kept waiting for the shared lock
\* of the same triple
C3_Witness ==
    \E l \in held : \E q \in Procs :
       /\ ViaLockRw(l)
       /\ q # l.proc
       /\ pc[q] \in {"lock_host", "lock_target"}
       /\ Blocked(q)
       /\ Home(cmode[q][2]) = HandleHome(l) /\ RequestTriple(q) = HandleTriple(l)

\* C4: once run has returned, whatever the outcome, the invocation holds no
\* lock.
C4_LocksReleasedOnReturn ==
    \A p \in Procs : pc[p] = "done" => \A l \in held : l.proc # p

\* two invocations have returned: one after its process exited, one after the
\* launch failed
C4_Witness ==
    \E p \in Procs : \E q \in Procs :
       /\ pc[p] = "done" /\ child[p][1] = "exited"
       /\ pc[q] = "done" /\ child[q] = <<"not launched">>

\* C5: while another process holds an exclusive lock on the target triple's
\* sysroot, run's lock_ro on that triple stays blocked and the external process
\* is not launched.
C5_BlocksUnderExclusiveLock ==
    [][\A p \in Procs :
          ( /\ pc[p] \in {"lock_target", "launch"}
            /\ ExclusiveOn(Home(cmode[p][2]), triple(cmode[p][2]), p) )
          => /\ pc[p] = "lock_target" => pc'[p] = "lock_target"
             /\ pc[p] = "launch" => pc'[p] # "running"]_vars

\* C6: a request for the lock of triple t2 is kept waiting only by locks held
\* on t2 under the same Home, never by a lock held on another triple.
C6_TriplesIndependent ==
    \A p \in Procs :
       Blocked(p) =>
          \E l \in held :
             /\ HandleHome(l) = Home(cmode[p][2])
             /\ HandleTriple(l) = RequestTriple(p)
             /\ (ViaLockRw(l) \/ pc[p] = "rw_wait")

\* a shared lock on one triple and an exclusive lock on another triple of the
\* same Home are held at once
C6_Witness ==
    \E l1 \in held : \E l2 \in held :
       /\ ~ViaLockRw(l1) /\ ViaLockRw(l2)
       /\ HandleHome(l1) = HandleHome(l2)
       /\ HandleTriple(l1) # HandleTriple(l2)

\* C9: a launched process's exit status is returned unchanged in Ok, also when
\* it is not zero, and a process that could not be launched gives an error.
C9_StatusPropagated ==
    \A p \in Procs :
       pc[p] = "done" =>
          /\ child[p][1] = "exited" => result[p] = Ok(child[p][2])
          /\ child[p][1] = "not launched" => IsErr(result[p])

\* an invocation has returned a non-zero status, another an error of the launch
C9_Witness ==
    \E p \in Procs : \E q \in Procs :
       /\ pc[p] = "done" /\ child[p][1] = "exited" /\ child[p][2] # 0
       /\ result[p] = Ok(child[p][2])
       /\ pc[q] = "done" /\ child[q] = <<"not launched">> /\ IsErr(result[q])

\* C10: for one cache root, the sysroot path of a native-mode Home is never
\* the sysroot path of a non-native Home, whatever the two triples.
C10_NativeAndCrossDisjoint ==
    (sysroots["native"] # None /\ sysroots["cross"] # None)
       => sysroots["native"] # sysroots["cross"]

\* both paths have been derived, for the same triple
C10_Witness ==
    /\ sysroots["native"] # None /\ sysroots["cross"] # None
    /\ \E t \in Triples :
          /\ sysroots["native"] = Some(path(homes["native"][2], t))
          /\ sysroots["cross"] = Some(path(homes["cross"][2], t))

\* ------------------------------------------------ claims on Xargo.toml
\* the directories from the root upwards that hold a Xargo.toml, the nearest
Ancestors(r) == {SubSeq(r, 1, k) : k \in 0..Len(r)}
Holding(r) == {d \in Ancestors(r) : files[d] # Absent}
Nearest(r) == CHOOSE d \in Holding(r) : \A e \in Holding(r) : Len(e) <= Len(d)

\* C7: with package.rust-src = "a/b/c", toml_src returns the canonical form of
\* <project_root>/a/b/c whenever that directory exists, for every current
\* directory, and returns absent with exactly one warning when it does not.
C7_RustSrcFromProjectRoot ==
    ( /\ src_out # None
      /\ Holding(root) # {}
      /\ files[Nearest(root)] =
            Valid(TTable(Name("package") :> TTable(Name("rust-src") :> TString(RustSrcRelative)))) )
    => LET want == canonicalize([absolute |-> TRUE, names |-> root \o ABC])
       IN IF IsOk(want)
          THEN src_out[2] = Ok(Some(want[2]))
          ELSE src_out[2] = Ok(None) /\ warnings = 1

\* C8: toml returns (None, None) exactly when no directory from the root up
\* holds a Xargo.toml; otherwise it fails when the nearest one is malformed
\* and returns that directory with its document when it is not.
C8_TomlThreeOutcomes ==
    toml_out # None =>
       IF Holding(root) = {} THEN toml_out[2] = Ok(<<None, None>>)
       ELSE IF files[Nearest(root)] = Malformed THEN IsErr(toml_out[2])
       ELSE toml_out[2] =
               Ok(<<Some(Nearest(root)), Some(files[Nearest(root)][2])>>)

\* the nearest Xargo.toml is well-formed and a farther one is malformed
C8_Witness ==
    /\ toml_out # None
    /\ root = Proj
    /\ files[Proj] # Absent /\ files[Proj] # Malformed
    /\ files[W] = Malformed
    /\ toml_out[2] = Ok(<<Some(Proj), Some(files[Proj][2])>>)

\* C11: a process terminated from outside holds no lock afterwards, and every
\* request that only its locks kept waiting can be granted once it is gone.
C11_KilledLocksReleased ==
    [][\A p \in Procs :
          (pc[p] # "killed" /\ pc'[p] = "killed") =>
             /\ \A l \in held' : l.proc # p
             /\ \A q \in Procs \ {p} :
                   ( /\ Blocked(q)
                     /\ Grantable({l \in held : l.proc # p}, Request(q)) )
                   => Grantable(held', Request(q))]_vars

\* a run invocation was killed with both of its locks granted, and a builder
\* now holds the exclusive lock of the sysroot the invocation had locked
C11_Witness ==
    \E p \in Procs : \E q \in Procs \ {p} :
       /\ pc[p] = "killed"
       /\ locks[p].host = "Ok"
       /\ locks[p].target = "Ok"
       /\ pc[q] = "rw_held"
       /\ held = {FileLock(lock_rw(Home(cmode[p][2]), triple(cmode[p][2])), q, "rw")}

\* C12: home takes the cache root from XARGO_HOME whenever it is set, whatever
\* the home directory; otherwise it is <home directory>/.xargo; it fails exactly
\* when XARGO_HOME is unset and there is no home directory, and then there is no
\* Home from which a sysroot could be named, locked or built.
C12_HomeResolution ==
    \A k \in Kinds :
       homes[k] # None =>
          /\ IsErr(homes[k]) <=> (env_xargo_home = None /\ env_home_dir = None)
          /\ IsErr(homes[k]) => sysroots[k] = None
          /\ IsOk(homes[k]) =>
                LET base == IF env_xargo_home # None THEN env_xargo_home[2]
                            ELSE env_home_dir[2] \o <<".xargo">>
                IN homes[k][2] \in {base, base \o <<"HOST">>}

\* XARGO_HOME and the home directory are both set, and home has returned
C12_Witness ==
    /\ env_xargo_home = Some(<<"cache">>)
    /\ env_home_dir = Some(<<"home", "user">>)
    /\ homes["cross"] = Ok(<<"cache">>)
    /\ homes["native"] = Ok(<<"cache", "HOST">>)

\* ------------------------------------------- claims on the tables
\* the entry of the target table whose key is the whole target name, and the
\* document without its target tables
TargetEntry(doc, target) ==
    walk(doc, <<Name("target"), target, Name("dependencies")>>)
WithoutTargets(doc) ==
    TTable([k \in DOMAIN doc[2] \ {Name("target")} |-> doc[2][k]])

\* C13: target_dependencies(T) returns the table the document has for
\* dependencies under the target named T, and absent when it has none, for
\* every document and target name; dependencies and patch return what they
\* return for the same document without target tables.
C13_TargetDependencies ==
    /\ tdeps_out # None =>
          tdeps_out[2] = TargetEntry(toml_table, toml_target)
    /\ deps_out # None =>
          deps_out[2] = dependencies(WithoutTargets(toml_table))
    /\ patch_out # None =>
          patch_out[2] = patch(WithoutTargets(toml_table))

\* ------------------------------------------- claims on the order of run
\* C14: in one run invocation the host triple's shared lock is granted before
\* the target triple's is asked for, the target's is not asked for while the
\* host's is pending, and both are granted before the build process is launched.
C14_HostThenTargetThenLaunch ==
    \A p \in Procs :
       /\ pc[p] = "lock_host" =>
             /\ locks[p].target = "unset"
             /\ ~HoldsShared(p, "target")
       /\ pc[p] = "lock_target" =>
             /\ locks[p].host = "Ok"
             /\ HoldsShared(p, "host")
       /\ pc[p] \in {"launch", "running"} =>
             /\ locks[p].host = "Ok" /\ HoldsShared(p, "host")
             /\ locks[p].target = "Ok" /\ HoldsShared(p, "target")

\* C15: the build process of every invocation has RUSTFLAGS in its environment,
\* and RUSTDOCFLAGS exactly when the subcommand is doc; when the documentation
\* flags cannot be computed, run returns the error with no lock asked for and
\* no build process launched.
C15_FlagsInChildEnvironment ==
    /\ [](\A p \in Procs :
            pc[p] \in {"lock_host", "lock_target", "launch", "running"} =>
               /\ childenv[p].RUSTFLAGS =
                     Some(rustflags \o <<"--sysroot", Home(cmode[p][2])>>)
               /\ childenv[p].RUSTDOCFLAGS # None <=> subcommand = "doc")
    /\ [][\A p \in Procs :
            (result[p] # Err("rustdocflags") /\ result'[p] = Err("rustdocflags"))
            => /\ pc[p] \in {"idle", "done", "killed"}
               /\ pc'[p] = "done"
               /\ held' = held
               /\ locks'[p] = NoLocks
               /\ child'[p] = None]_vars

\* a doc invocation runs its build process with both variables set, and
\* another has returned the error of the documentation flags
C15_Witness ==
    \E p \in Procs : \E q \in Procs \ {p} :
       /\ subcommand = "doc"
       /\ pc[p] = "running"
       /\ childenv[p].RUSTFLAGS # None
       /\ childenv[p].RUSTDOCFLAGS # None
       /\ pc[q] = "done"
       /\ result[q] = Err("rustdocflags")
       /\ child[q] = None

\* ------------------------------------------- claims on toml_src
\* the documents whose package.rust-src is a string, and the path it spells
HasRustSrcString(doc) ==
    \E str \in {RustSrcRelative, RustSrcAbsolute} :
       doc = TTable(Name("package") :> TTable(Name("rust-src") :> TString(str)))
RustSrcPath(doc) ==
    IF doc[2][Name("package")][2][Name("rust-src")][2] = RustSrcRelative
    THEN [absolute |-> FALSE, names |-> ABC]
    ELSE [absolute |-> TRUE, names |-> W \o ABC]

\* C16: toml_src returns absent, with no warning and no error, when there is no
\* Xargo.toml, no package key, a package that is no table, no rust-src, or a
\* rust-src that is no string; it warns only for a rust-src string whose path
\* cannot be canonicalized, and fails only for a malformed Xargo.toml.
C16_TomlSrcQuietCases ==
    src_out # None =>
       IF Holding(root) = {}
       THEN src_out[2] = Ok(None) /\ warnings = 0
       ELSE IF files[Nearest(root)] = Malformed
       THEN IsErr(src_out[2]) /\ warnings = 0
       ELSE LET doc == files[Nearest(root)][2]
            IN /\ IsOk(src_out[2])
               /\ ~HasRustSrcString(doc) =>
                     src_out[2] = Ok(None) /\ warnings = 0
               /\ HasRustSrcString(doc) =>
                     LET at == IF RustSrcPath(doc).absolute THEN <<>> ELSE cwd
                         there == IsOk(resolve(at, RustSrcPath(doc).names))
                     IN IF there THEN src_out[2] # Ok(None) /\ warnings = 0
                        ELSE src_out[2] = Ok(None) /\ warnings = 1

\* a rust-src that is an integer: absent, and nothing written
C16_Witness ==
    /\ src_out = Some(Ok(None))
    /\ warnings = 0
    /\ Holding(root) # {}
    /\ files[Nearest(root)] =
          Valid(TTable(Name("package") :> TTable(Name("rust-src") :> TInteger(1))))

\* ------------------------------------------- claims on the locks of run
\* the locks a run invocation holds, and the sentinel of a triple of its Home
RunLocks(p) == {l \in held : l.proc = p /\ l.slot \in {"host", "target"}}
Sentinel(p, t) == Home(cmode[p][2]) \o <<"lib", "rustlib", t, ".sentinel">>

\* C17: run never asks for and never holds an exclusive lock: the locks it asks
\* for and holds are shared locks on the host's and the target's sysroot.
C17_RunTakesSharedLocksOnly ==
    \A p \in Procs :
       /\ pc[p] \in {"lock_host", "lock_target"} =>
             /\ run_request(p).state = "Shared"
             /\ run_request(p).file \in
                   {Sentinel(p, HostTriple), Sentinel(p, triple(cmode[p][2]))}
       /\ \A l \in RunLocks(p) :
             /\ l.state = "Shared"
             /\ l.file \in {Sentinel(p, HostTriple), Sentinel(p, triple(cmode[p][2]))}

\* a cross compilation runs its build holding exactly its two shared locks
C17_Witness ==
    \E p \in Procs :
       /\ pc[p] = "running"
       /\ ~is_native(cmode[p][2])
       /\ {l.file : l \in RunLocks(p)} =
             {Sentinel(p, HostTriple), Sentinel(p, CrossTriple)}
       /\ \A l \in RunLocks(p) : l.state = "Shared"

\* the processes that exist and have not returned
Live == {p \in Procs : pc[p] \notin {"idle", "done", "killed"}}

\* C18: with any number of run invocations, and builders that hold one
\* exclusive lock at a time, there is no deadlock: whenever processes are at
\* work, one of them is not waiting for a lock that cannot be granted.
C18_NoDeadlock ==
    Live # {} => \E p \in Live : ~Blocked(p)

\* a run invocation holds its host lock and waits for its target lock, which a
\* builder holds exclusively
C18_Witness ==
    \E p \in Procs : \E q \in Procs \ {p} :
       /\ pc[p] = "lock_target"
       /\ HoldsShared(p, "host")
       /\ Blocked(p)
       /\ pc[q] = "rw_held"

\* C19: a native run invocation takes two shared locks on one sentinel, and the
\* second is never kept waiting by the first, not even while another process
\* waits for the exclusive lock of that sentinel.
C19_NativeSecondLockNotBlocked ==
    \A p \in Procs :
       ( /\ pc[p] = "lock_target"
         /\ is_native(cmode[p][2])
         /\ locks[p].host = "Ok" )
       => /\ HoldsShared(p, "host")
          /\ run_request(p) = lock_ro(Home(cmode[p][2]), HostTriple)
          /\ run_request(p).file = Sentinel(p, HostTriple)
          /\ ~Blocked(p)

\* a native invocation between its two acquisitions, with a builder waiting
\* for the exclusive lock of the same sentinel
C19_Witness ==
    \E p \in Procs : \E q \in Procs \ {p} :
       /\ pc[p] = "lock_target"
       /\ is_native(cmode[p][2])
       /\ HoldsShared(p, "host")
       /\ pc[q] = "rw_wait"
       /\ rw_request(q).file = Sentinel(p, HostTriple)
       /\ Blocked(q)

\* ------------------------------------------- claims on waiting builders
\* C20, as stated: with weak fairness and every holder releasing, a request
\* for an exclusive lock that is pending is in the end granted (or ends with
\* an error), even while new run invocations keep taking shared locks.
C20_PendingExclusiveServed ==
    \A q \in Procs : (pc[q] = "rw_wait") ~> (pc[q] # "rw_wait")

\* a new invocation of run, or a new builder, starts
Begins == \E p \in Procs : run_begin(p) \/ rw_begin(p)

\* C20, amended: with weak fairness and every holder releasing, a pending
\* request for an exclusive lock is in the end granted (or ends with an error)
\* unless new invocations keep starting for ever.
C20_PendingExclusiveServedOnceQuiet ==
    \/ []<><<Begins>>_vars
    \/ \A q \in Procs : (pc[q] = "rw_wait") ~> (pc[q] # "rw_wait")

\* a builder waits for the exclusive lock of a sentinel on which a run
\* invocation, its build running, holds a shared lock
C20_Witness ==
    \E p \in Procs : \E q \in Procs \ {p} :
       /\ pc[q] = "rw_wait"
       /\ Blocked(q)
       /\ pc[p] = "running"
       /\ \E l \in RunLocks(p) : l.file = rw_request(q).file

====
